---- MODULE Spec2Model ----
(***************************************************************************)
(* A model of the avatar service's audio pipeline,                         *)
(* services/avatar-service/src/core/tts/audio_processor.py:                *)
(* AudioProcessor with its four stored stage outputs, the stages           *)
(* load_from_binary -> preprocess -> chunk_audio ->                        *)
(* generate_mel_spectrograms, the accessors and process_pipeline.          *)
(*                                                                         *)
(* Audio samples are small integers, arrays are sequences, a 2-D array is  *)
(* a record [rows, cols, at].  The libraries the code calls (soundfile,    *)
(* numpy, resampy, librosa) are modelled by what the code relies on: the   *)
(* shape of what they return, when they raise, and a value abstraction     *)
(* that keeps positions and silence distinguishable.                       *)
(***************************************************************************)
EXTENDS Integers, Sequences, FiniteSets, TLC

(***************************************************************************)
(* Bounds of the model.                                                    *)
(***************************************************************************)
\* longest decoded mono audio, in samples, of a single pipeline run (SpecRun)
MaxLen == 5
\* longest decoded stereo audio, in frames
MaxStereoLen == 1
\* chunk_duration_ms ranges over 0..MaxChunkMs
MaxChunkMs == 3
\* mel_bands ranges over 1..MaxMelBands
MaxMelBands == 2
\* number of loads (direct or through process_pipeline) in one behaviour of Spec
MaxLoads == 2
\* widest spectrogram handed to the time-axis correction, in columns
MaxCols == 6
\* number of TextToSpeechHandler calls in one behaviour of SpecTts
MaxTtsCalls == 3
MaxSubmissions == 3
\* number of voice model files a folder holds at most, with ids below it
MaxModels == 2

(***************************************************************************)
(* Values.                                                                 *)
(***************************************************************************)
\* Sample values: even, so that the mean of two channels is an integer.
Samples == {0, 2}

\* Python's None and a present value.  A present value carries the serial
\* number of the load it derives from (history, not program state).
None == [some |-> FALSE]
Some(v, run) == [some |-> TRUE, val |-> v, run |-> run]

NoError == "none"

SeqsUpTo(S, n) == UNION {[1..k -> S] : k \in 0..n}

RECURSIVE SumSeq(_)
SumSeq(s) == IF s = <<>> THEN 0 ELSE Head(s) + SumSeq(Tail(s))

Min(a, b) == IF a <= b THEN a ELSE b

Abs(x) == IF x < 0 THEN -x ELSE x

\* ceil(n / d) for d >= 1
CeilDiv(n, d) == (n + d - 1) \div d

(***************************************************************************)
(* Configuration: AudioProcessor.__init__                                  *)
(***************************************************************************)
TargetSampleRates == {1000}

\* the sample rates a decoded container may carry
NativeRates == {1000, 2000}

Configs ==
    [target_sample_rate : TargetSampleRates,
     chunk_duration_ms : 0..MaxChunkMs,
     mel_bands : 1..MaxMelBands]

\* self.chunk_size = int(target_sample_rate * chunk_duration_ms / 1000)
chunk_size(c) == (c.target_sample_rate * c.chunk_duration_ms) \div 1000

\* a hop of a quarter of the frame
hop_length_quarter(c) == chunk_size(c) \div 4

\* self.hop_length = int(self.chunk_size / 2)
hop_length(c) == chunk_size(c) \div 2

\* the state after construction: the four stage outputs are None, and
\* original_sample_rate is not an attribute yet
NewAudioProcessor ==
    [_raw_audio |-> None,
     original_sample_rate |-> None,
     _processed_audio |-> None,
     _audio_chunks |-> None,
     _mel_features |-> None]

(***************************************************************************)
(* Inputs: the bytes handed to load_from_binary, as what the decoder makes *)
(* of them.  channels = 1: frames is a sequence of samples; channels = 2:  *)
(* frames is a sequence of <<left, right>> pairs.                          *)
(***************************************************************************)
Garbage == [valid |-> FALSE, channels |-> 0, samplerate |-> 0, frames |-> <<>>]

MonoBlobs(n) ==
    [valid : {TRUE}, channels : {1}, samplerate : NativeRates,
     frames : SeqsUpTo(Samples, n)]

\* audio of no sample or of one sample
ShortBlobs ==
    [valid : {TRUE}, channels : {1}, samplerate : NativeRates,
     frames : {<<>>, <<0>>, <<2>>}]

StereoBlobs(n) ==
    [valid : {TRUE}, channels : {2}, samplerate : NativeRates,
     frames : SeqsUpTo(Samples \X Samples, n)]

\* the inputs of a single pipeline run
RunBlobs == {Garbage} \cup MonoBlobs(MaxLen) \cup StereoBlobs(MaxStereoLen)

\* the inputs of the call-sequence and concurrency models: what decides a
\* stage's outcome there is whether the audio decodes, is empty, is silent,
\* and which rate it has
CallBlobs == {Garbage} \cup ShortBlobs

(***************************************************************************)
(* Library calls.                                                          *)
(***************************************************************************)
\* sf.read(BytesIO(audio_binary)): a 1-D array for one channel, a 2-D
\* (frames, channels) array otherwise; raises when the bytes are no audio.
sf_read(b) ==
    IF ~b.valid
    THEN [err |-> "LibsndfileError", audio |-> [ndim |-> 1, data |-> <<>>],
          sample_rate |-> 0]
    ELSE [err |-> NoError,
          audio |-> [ndim |-> IF b.channels = 1 THEN 1 ELSE 2, data |-> b.frames],
          sample_rate |-> b.samplerate]

\* np.mean(audio, axis=1) of a (frames, 2) array
np_mean_axis1(data) == [k \in 1..Len(data) |-> (data[k][1] + data[k][2]) \div 2]

\* a resampler that hands its input back at the rate it came in
resample_unchanged(x, sr_orig, sr_new) == [err |-> NoError, y |-> x]

\* resampy.resample(x, sr_orig, sr_new): int(len(x) * sr_new / sr_orig)
\* samples, ValueError when that is below 1.  Output sample j stands for the
\* band-limited interpolation of x at time j / sr_new.
resample(x, sr_orig, sr_new) ==
    LET n_samples == (Len(x) * sr_new) \div sr_orig
    IN  IF n_samples < 1
        THEN [err |-> "ValueError: input too small to resample", y |-> <<>>]
        ELSE [err |-> NoError,
              y |-> [j \in 1..n_samples |-> x[((j - 1) * sr_orig) \div sr_new + 1]]]

\* a[i:j] that starts one sample late
SliceLate(a, i, j) == SubSeq(a, i + 2, Min(j + 1, Len(a)))

\* a[i:j] for 0 <= i <= j (Python slice of a 1-D array)
Slice(a, i, j) == SubSeq(a, i + 1, Min(j, Len(a)))

\* a pad that adds nothing
np_pad_nothing(a, after) == a

\* np.pad(a, (0, after), "constant")
np_pad_constant(a, after) == a \o [k \in 1..after |-> 0]

\* a handler that raises an error of its own in place of the one it caught
LogAndRaiseNew(e) == "RuntimeError: stage failed"

\* the except-handler of every stage: logger.error(...); raise
LogAndReraise(e) == e

(***************************************************************************)
(* The stages, as functions of the object's fields o and its configuration *)
(* c.  Each returns [err, cause, obj]: the error that leaves the method    *)
(* (NoError when it returns), the error its body raised, and the fields    *)
(* after the call.                                                         *)
(***************************************************************************)
Returned(o) == [err |-> NoError, cause |-> NoError, obj |-> o]

\* raised outside any try block: nothing is logged, nothing is assigned
Raised(e, o) == [err |-> e, cause |-> e, obj |-> o]

\* raised inside the stage's try block: except Exception as e: log; raise
Caught(e, o) == [err |-> LogAndReraise(e), cause |-> e, obj |-> o]

\* a load that drops the outputs of the later stages with the old audio
load_from_binary_resetting(o, b, run) ==
    LET r == sf_read(b)
    IN  IF r.err # NoError
        THEN Caught(r.err, o)
        ELSE Returned([o EXCEPT !._raw_audio = Some(r.audio, run),
                                !.original_sample_rate = Some(r.sample_rate, run),
                                !._processed_audio = None,
                                !._audio_chunks = None,
                                !._mel_features = None])

\* a load that clears the stored audio before it decodes
load_from_binary_clear_first(o, b, run) ==
    LET r == sf_read(b)
        cleared == [o EXCEPT !._raw_audio = None, !.original_sample_rate = None]
    IN  IF r.err # NoError
        THEN Caught(r.err, cleared)
        ELSE Returned([o EXCEPT !._raw_audio = Some(r.audio, run),
                                !.original_sample_rate = Some(r.sample_rate, run)])

\* a load that keeps the audio the instance already holds
load_from_binary_once(o, b, run) ==
    IF o._raw_audio.some
    THEN Returned(o)
    ELSE LET r == sf_read(b)
         IN  IF r.err # NoError
             THEN Caught(r.err, o)
             ELSE Returned([o EXCEPT !._raw_audio = Some(r.audio, run),
                                     !.original_sample_rate =
                                         Some(r.sample_rate, run)])

\* load_from_binary(audio_binary); run is the serial number of this load.
\* astype(np.float32) is exact on the model's small integers.
load_from_binary(o, b, run) ==
    LET r == sf_read(b)
    IN  IF r.err # NoError
        THEN Caught(r.err, o)
        ELSE Returned([o EXCEPT !._raw_audio = Some(r.audio, run),
                                !.original_sample_rate = Some(r.sample_rate, run)])

\* load_from_file: the decoder reads the file at file_path; the file is
\* given by its content, an unreadable or missing file being Garbage
load_from_file(o, file, run) ==
    LET r == sf_read(file)
    IN  IF r.err # NoError
        THEN Caught(r.err, o)
        ELSE Returned([o EXCEPT !._raw_audio = Some(r.audio, run),
                                !.original_sample_rate = Some(r.sample_rate, run)])

\* a preprocess that takes every source to be at the highest native rate
\* instead of reading original_sample_rate
preprocess_fixed_rate(o, c) ==
    IF ~o._raw_audio.some
    THEN Raised("RuntimeError: No audio loaded", o)
    ELSE LET raw == o._raw_audio.val
             mono == IF raw.ndim > 1 THEN np_mean_axis1(raw.data) ELSE raw.data
             r == resample(mono, 2000, c.target_sample_rate)
         IN  IF r.err # NoError
             THEN Caught(r.err, o)
             ELSE Returned([o EXCEPT !._processed_audio =
                                         Some(r.y, o._raw_audio.run)])

\* preprocess(): mono mean, then resampling when the rates differ
preprocess(o, c) ==
    IF ~o._raw_audio.some
    THEN Raised("RuntimeError: No audio loaded", o)
    ELSE LET raw == o._raw_audio.val
             mono == IF raw.ndim > 1 THEN np_mean_axis1(raw.data) ELSE raw.data
             sr == o.original_sample_rate.val
         IN  IF sr # c.target_sample_rate
             THEN LET r == resample(mono, sr, c.target_sample_rate)
                  IN  IF r.err # NoError
                      THEN Caught(r.err, o)
                      ELSE Returned([o EXCEPT !._processed_audio =
                                                  Some(r.y, o._raw_audio.run)])
             ELSE Returned([o EXCEPT !._processed_audio =
                                         Some(mono, o._raw_audio.run)])

\* a chunk loop that keeps only the chunks of exactly chunk_size samples
RECURSIVE ChunkLoopDropShort(_, _, _, _)
ChunkLoopDropShort(audio, cs, i, chunks) ==
    IF i >= Len(audio)
    THEN chunks
    ELSE LET chunk == SubSeq(audio, i + 1, Min(i + cs, Len(audio)))
         IN  ChunkLoopDropShort(audio, cs, i + cs,
                                IF Len(chunk) = cs THEN Append(chunks, chunk)
                                ELSE chunks)

\* for i in range(0, len(audio), chunk_size): ... chunks.append(...)
RECURSIVE ChunkLoop(_, _, _, _)
ChunkLoop(audio, cs, i, chunks) ==
    IF i >= Len(audio)
    THEN chunks
    ELSE LET chunk == Slice(audio, i, i + cs)
         IN  ChunkLoop(audio, cs, i + cs,
                       Append(chunks,
                              IF Len(chunk) = cs
                              THEN chunk
                              ELSE np_pad_constant(chunk, cs - Len(chunk))))

\* chunk_audio without its guard: absent audio is chunked as no audio
chunk_audio_unguarded(o, c) ==
    IF chunk_size(c) = 0
    THEN Caught("ValueError: range() arg 3 must not be zero", o)
    ELSE Returned([o EXCEPT !._audio_chunks =
                      Some(IF o._processed_audio.some
                           THEN ChunkLoop(o._processed_audio.val, chunk_size(c), 0, <<>>)
                           ELSE <<>>,
                           0)])

\* a chunk_audio that goes on from the frame list the instance already holds
chunk_audio_appending(o, c) ==
    IF ~o._processed_audio.some
    THEN Raised("RuntimeError: No processed audio", o)
    ELSE IF chunk_size(c) = 0
         THEN Caught("ValueError: range() arg 3 must not be zero", o)
         ELSE Returned([o EXCEPT !._audio_chunks =
                           Some(ChunkLoop(o._processed_audio.val, chunk_size(c), 0,
                                          IF o._audio_chunks.some
                                          THEN o._audio_chunks.val ELSE <<>>),
                                o._processed_audio.run)])

\* chunk_audio()
chunk_audio(o, c) ==
    IF ~o._processed_audio.some
    THEN Raised("RuntimeError: No processed audio", o)
    ELSE IF chunk_size(c) = 0
         THEN Caught("ValueError: range() arg 3 must not be zero", o)
         ELSE Returned([o EXCEPT !._audio_chunks =
                           Some(ChunkLoop(o._processed_audio.val, chunk_size(c), 0, <<>>),
                                o._processed_audio.run)])

(***************************************************************************)
(* The featurizer.  A 2-D array is [rows, cols, at], at a function on      *)
(* (1..rows) \X (1..cols).                                                 *)
(***************************************************************************)
\* n_fft = win_length = 800
n_fft == 800

\* the tile width the code pads or cuts to
TimeSteps == 4

Cells(rows, cols) == (1..rows) \X (1..cols)

shape(m) == <<m.rows, m.cols>>

\* Energy the analysis window centred on sample t * hop picks up from y: a
\* window of n_fft samples whose weight falls off with the distance from its
\* centre (the signal is padded with n_fft / 2 samples on both sides).
WindowEnergy(y, t, hop) ==
    SumSeq([i \in 1..Len(y) |->
              LET d == Abs((i - 1) - t * hop)
              IN  IF d < n_fft \div 2 THEN (n_fft \div 2 - d) * y[i] * y[i] ELSE 0])

\* librosa.feature.melspectrogram(y, n_mels, n_fft, hop_length, center=True):
\* an (n_mels, 1 + len(y) // hop_length) array of non-negative energies;
\* ParameterError unless hop_length is a positive integer.
melspectrogram(y, n_mels, hop) ==
    IF hop < 1
    THEN [err |-> "ParameterError: hop_length must be a positive integer",
          S |-> [rows |-> 0, cols |-> 0, at |-> <<>>]]
    ELSE [err |-> NoError,
          S |-> [rows |-> n_mels, cols |-> 1 + Len(y) \div hop,
                 at |-> [p \in Cells(n_mels, 1 + Len(y) \div hop) |->
                           p[1] * WindowEnergy(y, p[2] - 1, hop)]]]

\* np.log(x), elementwise, without the floor
np_log_plain(m) ==
    [m EXCEPT !.at = [p \in Cells(m.rows, m.cols) |->
                        [log_num |-> m.at[p], log_eps |-> 0]]]

\* np.log(x + 1e-8), elementwise.  A value [log_num, log_eps] stands for
\* log(log_num + log_eps * 1e-8): finite exactly when that sum is positive.
np_log_eps(m) ==
    [m EXCEPT !.at = [p \in Cells(m.rows, m.cols) |->
                        [log_num |-> m.at[p], log_eps |-> 1]]]

\* np.pad(m, ((0, 0), (0, k))) in its default mode: the new columns hold 0.0,
\* which is log(1)
np_pad_zeros(m, k) ==
    [rows |-> m.rows, cols |-> m.cols + k,
     at |-> [p \in Cells(m.rows, m.cols + k) |->
               IF p[2] <= m.cols THEN m.at[p] ELSE [log_num |-> 1, log_eps |-> 0]]]

\* np.pad(m, ((0, 0), (0, k)), mode="edge")
np_pad_edge(m, k) ==
    [rows |-> m.rows, cols |-> m.cols + k,
     at |-> [p \in Cells(m.rows, m.cols + k) |-> m.at[<<p[1], Min(p[2], m.cols)>>]]]

\* m[:, :k]
FirstCols(m, k) ==
    [rows |-> m.rows, cols |-> Min(k, m.cols),
     at |-> [p \in Cells(m.rows, Min(k, m.cols)) |-> m.at[p]]]

\* no time-axis correction at all
KeepTimeSteps(m) == m

\* the time-axis correction, lines 207-212
FixTimeSteps(m) ==
    IF m.cols < TimeSteps THEN np_pad_edge(m, TimeSteps - m.cols)
    ELSE IF m.cols > TimeSteps THEN FirstCols(m, TimeSteps)
    ELSE m

\* a frame-length normalisation that pads short frames and lets long ones be
FixChunkLengthNoCut(audio_chunk, cs) ==
    IF Len(audio_chunk) < cs THEN np_pad_constant(audio_chunk, cs - Len(audio_chunk))
    ELSE audio_chunk

\* the frame-length normalisation, lines 183-189
FixChunkLength(audio_chunk, cs) ==
    IF Len(audio_chunk) < cs THEN np_pad_constant(audio_chunk, cs - Len(audio_chunk))
    ELSE IF Len(audio_chunk) > cs THEN Slice(audio_chunk, 0, cs)
    ELSE audio_chunk

\* _chunk_to_mel_spectrogram(audio_chunk): [err, tile]
chunk_to_mel_spectrogram(audio_chunk, c) ==
    LET y == FixChunkLength(audio_chunk, chunk_size(c))
        r == melspectrogram(y, c.mel_bands, hop_length(c))
    IN  IF r.err # NoError
        THEN [err |-> r.err, tile |-> r.S]
        ELSE LET mel_spec == FixTimeSteps(np_log_eps(r.S))
             IN  IF shape(mel_spec) # <<c.mel_bands, TimeSteps>>
                 THEN [err |-> "AssertionError", tile |-> mel_spec]
                 ELSE [err |-> NoError, tile |-> mel_spec]

\* a tile loop that puts each new tile in front of the earlier ones
RECURSIVE MelLoopPrepend(_, _, _, _)
MelLoopPrepend(chunks, c, i, mel_features) ==
    IF i > Len(chunks)
    THEN [err |-> NoError, mel_features |-> mel_features]
    ELSE LET r == chunk_to_mel_spectrogram(chunks[i], c)
         IN  IF r.err # NoError
             THEN [err |-> r.err, mel_features |-> mel_features]
             ELSE MelLoopPrepend(chunks, c, i + 1, <<r.tile>> \o mel_features)

\* the loop of generate_mel_spectrograms: the first failing chunk ends it
RECURSIVE MelLoop(_, _, _, _)
MelLoop(chunks, c, i, mel_features) ==
    IF i > Len(chunks)
    THEN [err |-> NoError, mel_features |-> mel_features]
    ELSE LET r == chunk_to_mel_spectrogram(chunks[i], c)
         IN  IF r.err # NoError
             THEN [err |-> r.err, mel_features |-> mel_features]
             ELSE MelLoop(chunks, c, i + 1, Append(mel_features, r.tile))

\* a generate_mel_spectrograms that empties the stored list first and keeps
\* in it the tiles made before a frame failed
generate_mel_spectrograms_in_place(o, c) ==
    IF ~o._audio_chunks.some
    THEN Raised("RuntimeError: No audio chunks", o)
    ELSE LET r == MelLoop(o._audio_chunks.val, c, 1, <<>>)
             stored == [o EXCEPT !._mel_features =
                                    Some(r.mel_features, o._audio_chunks.run)]
         IN  IF r.err # NoError THEN Caught(r.err, stored) ELSE Returned(stored)

\* a generate_mel_spectrograms that takes absent frames for no frames
generate_mel_spectrograms_unguarded(o, c) ==
    LET r == MelLoop(IF o._audio_chunks.some THEN o._audio_chunks.val ELSE <<>>,
                     c, 1, <<>>)
    IN  IF r.err # NoError
        THEN Caught(r.err, o)
        ELSE Returned([o EXCEPT !._mel_features = Some(r.mel_features, 0)])

generate_mel_spectrograms(o, c) ==
    IF ~o._audio_chunks.some
    THEN Raised("RuntimeError: No audio chunks", o)
    ELSE LET r == MelLoop(o._audio_chunks.val, c, 1, <<>>)
         IN  IF r.err # NoError
             THEN Caught(r.err, o)
             ELSE Returned([o EXCEPT !._mel_features =
                                        Some(r.mel_features, o._audio_chunks.run)])

(***************************************************************************)
(* The accessors: [err, val, run].                                         *)
(***************************************************************************)
Got(x) == [err |-> NoError, val |-> x.val, run |-> x.run]

NotThere(e) == [err |-> e, val |-> <<>>, run |-> 0]

\* an accessor that tests the list's truth value instead of "is None"
mel_features_truthy(o) ==
    IF ~o._mel_features.some \/ o._mel_features.val = <<>>
    THEN NotThere("RuntimeError: No mel features generated")
    ELSE Got(o._mel_features)

mel_features(o) ==
    IF ~o._mel_features.some
    THEN NotThere("RuntimeError: No mel features generated")
    ELSE Got(o._mel_features)

audio_chunks(o) ==
    IF ~o._audio_chunks.some
    THEN NotThere("RuntimeError: No audio chunks generated")
    ELSE Got(o._audio_chunks)

processed_audio(o) ==
    IF ~o._processed_audio.some
    THEN NotThere("RuntimeError: No processed audio")
    ELSE Got(o._processed_audio)

(***************************************************************************)
(* TextToSpeechHandler (handler.py).  A handler value holds the fields     *)
(* audio_query, audio_output and style_lookup_info, the file at            *)
(* wav_output_path, and as history the number of synthesizer calls, of WAV *)
(* writes and of handler calls, and the handler call that ended last.      *)
(***************************************************************************)
\* the styles of the voice models in vvm_folder_path, as
\* create_voice_style_info stores them: actor -> style name -> ids
InstalledStyles ==
    ("zundamon" :> ("normal" :> [model_id |-> 0, style_id |-> 3] @@
                    "sweet"  :> [model_id |-> 0, style_id |-> 1]))
    @@ ("metan" :> ("normal" :> [model_id |-> 0, style_id |-> 2]))

\* the style ids the synthesizer has a loaded model for
LoadedStyleIds ==
    UNION { { InstalledStyles[a][n].style_id : n \in DOMAIN InstalledStyles[a] } :
              a \in DOMAIN InstalledStyles }

NoTtsCall == [op |-> "none", err |-> NoError, text |-> ""]

\* A folder of voice models is the sequence of its files in the order
\* os.listdir gives them; the file <id>.vvm holds the style metas of its
\* model, each [actor_name, style_name, style_id].
VoiceModelFile(id, metas) == [id |-> id, metas |-> metas]

StyleMeta(actor, style, id) ==
    [actor_name |-> actor, style_name |-> style, style_id |-> id]

\* the folder whose lookup table is InstalledStyles
InstalledModels ==
    << VoiceModelFile(0, << StyleMeta("zundamon", "normal", 3),
                            StyleMeta("zundamon", "sweet", 1),
                            StyleMeta("metan", "normal", 2) >>) >>

\* sorted(ids), for ids that differ
RECURSIVE sorted(_)
sorted(ids) ==
    IF ids = <<>> THEN <<>>
    ELSE LET k == CHOOSE i \in 1..Len(ids) : \A j \in 1..Len(ids) : ids[i] <= ids[j]
         IN  <<ids[k]>> \o sorted([i \in 1..(Len(ids) - 1) |->
                                     IF i < k THEN ids[i] ELSE ids[i + 1]])

\* VoiceModelFile.open(f"{vvm_folder_path}/{model_id}.vvm")
OpenModel(folder, model_id) ==
    folder[CHOOSE i \in 1..Len(folder) : folder[i].id = model_id]

\* first pass, lines 71-86: load each model and record every style the
\* synthesizer reports, which are those of all models loaded so far, under
\* the id of the model just loaded
RECURSIVE FirstPass(_, _, _, _, _)
FirstPass(folder, model_id_list, k, metas, all_voice_data) ==
    IF k > Len(model_id_list)
    THEN [metas |-> metas, all_voice_data |-> all_voice_data]
    ELSE LET model_id == model_id_list[k]
             style_metas == metas \o OpenModel(folder, model_id).metas
         IN  FirstPass(folder, model_id_list, k + 1, style_metas,
                       all_voice_data \o
                           [i \in 1..Len(style_metas) |->
                              [actor_name |-> style_metas[i].actor_name,
                               style_name |-> style_metas[i].style_name,
                               style_id |-> style_metas[i].style_id,
                               model_id |-> model_id]])

NoEntries == [x \in {} |-> x]

VoiceIds(voice) == [model_id |-> voice.model_id, style_id |-> voice.style_id]

\* a second pass in which a later occurrence replaces the earlier one
RECURSIVE OrganizeLastWins(_, _, _)
OrganizeLastWins(all_voice_data, k, organized_voices) ==
    IF k > Len(all_voice_data) THEN organized_voices
    ELSE LET voice == all_voice_data[k]
             a == voice.actor_name
             with_actor == IF a \in DOMAIN organized_voices THEN organized_voices
                           ELSE organized_voices @@ (a :> NoEntries)
         IN  OrganizeLastWins(all_voice_data, k + 1,
                 [with_actor EXCEPT
                     ![a] = (voice.style_name :> VoiceIds(voice)) @@ @])

\* second pass, lines 90-104: the first occurrence of a style name of an
\* actor is kept
RECURSIVE Organize(_, _, _)
Organize(all_voice_data, k, organized_voices) ==
    IF k > Len(all_voice_data) THEN organized_voices
    ELSE LET voice == all_voice_data[k]
             a == voice.actor_name
             with_actor == IF a \in DOMAIN organized_voices THEN organized_voices
                           ELSE organized_voices @@ (a :> NoEntries)
         IN  Organize(all_voice_data, k + 1,
                 IF voice.style_name \in DOMAIN with_actor[a] THEN with_actor
                 ELSE [with_actor EXCEPT
                          ![a] = @ @@ (voice.style_name :> VoiceIds(voice))])

\* fetch_all_available_styles(): [metas, organized_voices], metas being what
\* the synthesizer reports afterwards
fetch_all_available_styles(folder) ==
    LET model_id_list == sorted([i \in 1..Len(folder) |-> folder[i].id])
        pass == FirstPass(folder, model_id_list, 1, <<>>, <<>>)
    IN  [metas |-> pass.metas,
         organized_voices |-> Organize(pass.all_voice_data, 1, NoEntries)]

\* create_voice_style_info(): the tables for the two dropdowns and the lookup
create_voice_style_info(folder) ==
    LET actor_styles_map == fetch_all_available_styles(folder).organized_voices
    IN  [actors |-> DOMAIN actor_styles_map,
         actor_styles |-> [actor \in DOMAIN actor_styles_map |->
                             DOMAIN actor_styles_map[actor]],
         style_lookup |-> actor_styles_map]

\* TextToSpeechHandler() over a folder of voice models
TextToSpeechHandlerOn(folder) ==
    [audio_query |-> None, audio_output |-> None,
     vvm_folder |-> folder,
     metas |-> fetch_all_available_styles(folder).metas,
     voice_style_info |-> create_voice_style_info(folder),
     style_lookup_info |-> create_voice_style_info(folder).style_lookup,
     wav_file |-> None,
     synth_calls |-> 0, wav_writes |-> 0, calls |-> 0,
     last |-> NoTtsCall]

NewTextToSpeechHandler == TextToSpeechHandlerOn(InstalledModels)

\* Synthesizer.create_audio_query(text, style_id): [err, query]
create_audio_query(text, style_id) ==
    IF style_id \notin LoadedStyleIds
    THEN [err |-> "StyleNotFoundError", query |-> None]
    ELSE [err |-> NoError,
          query |-> [some |-> TRUE, text |-> text, style_id |-> style_id]]

\* Synthesizer.synthesis(audio_query, style_id): the WAV bytes of the query
synthesis(audio_query, style_id) ==
    [some |-> TRUE, wav_of |-> audio_query.text, style_id |-> style_id]

\* results of a handler method: the error raised, the value returned, and
\* the handler after the call
TtsReturned(h, v) == [err |-> NoError, val |-> v, h |-> h]
TtsRaised(h, e) == [err |-> e, val |-> None, h |-> h]

\* a generate_audio_output_given_voice_ids without the check of the text
generate_audio_output_unchecked(h, voice_style_id, llm_response) ==
    LET q == create_audio_query(llm_response, voice_style_id)
    IN  IF q.err # NoError
        THEN TtsRaised([h EXCEPT !.synth_calls = @ + 1], q.err)
        ELSE TtsReturned([h EXCEPT !.audio_query = q.query,
                                   !.audio_output =
                                       synthesis(q.query, voice_style_id),
                                   !.synth_calls = @ + 2], None)

\* generate_audio_output_given_voice_ids(voice_style_id, llm_response)
generate_audio_output_given_voice_ids(h, voice_style_id, llm_response) ==
    IF llm_response = ""
    THEN TtsRaised(h, "ValueError: Text input is empty.")
    ELSE LET q == create_audio_query(llm_response, voice_style_id)
         IN  IF q.err # NoError
             THEN TtsRaised([h EXCEPT !.synth_calls = @ + 1], q.err)
             ELSE TtsReturned([h EXCEPT !.audio_query = q.query,
                                        !.audio_output =
                                            synthesis(q.query, voice_style_id),
                                        !.synth_calls = @ + 2], None)

\* a lookup that falls back on one of the actor's styles for an unknown
\* style name
get_voice_id_from_names_fallback(h, voice_actor_name, voice_style_name) ==
    IF voice_actor_name \notin DOMAIN h.style_lookup_info
    THEN TtsRaised(h, "ValueError: Voice actor not found")
    ELSE LET actor_styles == h.style_lookup_info[voice_actor_name]
             name == IF voice_style_name \in DOMAIN actor_styles
                     THEN voice_style_name
                     ELSE CHOOSE n \in DOMAIN actor_styles : TRUE
         IN  TtsReturned(h, actor_styles[name].style_id)

\* get_voice_id_from_names(voice_actor_name, voice_style_name)
get_voice_id_from_names(h, voice_actor_name, voice_style_name) ==
    IF voice_actor_name \notin DOMAIN h.style_lookup_info
    THEN TtsRaised(h, "ValueError: Voice actor not found")
    ELSE IF voice_style_name \notin DOMAIN h.style_lookup_info[voice_actor_name]
    THEN TtsRaised(h, "ValueError: Style not found for actor")
    ELSE TtsReturned(h, h.style_lookup_info[voice_actor_name][voice_style_name].style_id)

\* create_wav_file(audio_output, wav_output_path): open "wb" and write
create_wav_file(h, audio_output) ==
    [h EXCEPT !.wav_file = audio_output, !.wav_writes = @ + 1]

\* create_wav_from_llm_response(llm_response, voice_actor_name, voice_style_name)
create_wav_from_llm_response(h, llm_response, voice_actor_name, voice_style_name) ==
    LET id == get_voice_id_from_names(h, voice_actor_name, voice_style_name)
    IN  IF id.err # NoError
        THEN id
        ELSE LET g == generate_audio_output_given_voice_ids(h, id.val, llm_response)
             IN  IF g.err # NoError
                 THEN g
                 ELSE TtsReturned(create_wav_file(g.h, g.h.audio_output), None)

(***************************************************************************)
(* The Ollama service (ollama_prompt_handler.py, routers.py).  A text is   *)
(* the sequence of its characters.  The service value holds the fields of  *)
(* the module-level handler and, for each /prompt request being served,    *)
(* its body, its position in prompt_ollama, the query the model got for it *)
(* and the response body built for it.                                     *)
(***************************************************************************)
\* text.replace("\n", "").replace("\t", "")
remove_seperators_from_text(text) ==
    SelectSeq(text, LAMBDA ch : ch \notin {"\n", "\t"})

DEFAULT_ADMIN_PROMPT == <<"d">>

\* OllamaPromptHandler()
NewOllamaPromptHandler ==
    [model |-> "", admin_prompt |-> <<>>, user_prompt |-> <<>>]

Requests == {1, 2}

NoRequest ==
    [pc |-> "idle",
     body |-> [model |-> "", user_prompt |-> <<>>, admin_prompt |-> <<>>],
     queried |-> None, response |-> None]

NewOllamaService ==
    [handler |-> NewOllamaPromptHandler, req |-> [r \in Requests |-> NoRequest]]

(***************************************************************************)
(* The chat UI (gradio_interface.py): the number of submissions so far and *)
(* what create_output_to_ui returned last.                                 *)
(***************************************************************************)
NoSubmission ==
    [op |-> "none", err |-> NoError, llm_response |-> None, audio |-> None,
     written |-> FALSE]

NewChatInterface == [submissions |-> 0, last |-> NoSubmission]

(***************************************************************************)
(* State.                                                                  *)
(*   cfg     the configuration the processors were constructed with        *)
(*   obj     the fields of each AudioProcessor instance                    *)
(*   call    each caller's process_pipeline invocation and its position    *)
(*   last    history: the stage or accessor call that ended last           *)
(*   nloads  history: the number of loads so far                           *)
(*   tts     the TextToSpeechHandler, its synthesizer and its WAV file     *)
(*   ollama  the module-level OllamaPromptHandler and the /prompt requests *)
(*   ui      the ChatInterface: its submissions and what the last returned *)
(***************************************************************************)
VARIABLES cfg, obj, call, last, nloads, tts, ollama, ui

vars == <<cfg, obj, call, last, nloads, tts, ollama, ui>>

Instances == {1, 2}

Threads == {1, 2}

Stages == <<"load", "preprocess", "chunk", "generate">>

IdleCall(i) ==
    [pc |-> "idle", inst |-> i, input |-> Garbage, err |-> NoError,
     cause |-> NoError, ret |-> None, ran |-> <<>>]

NoCall == [op |-> "none", err |-> NoError, stale |-> FALSE, missing |-> FALSE]

\* the serial number of the load the instance's raw audio comes from
CurrentRun(o) == IF o._raw_audio.some THEN o._raw_audio.run ELSE 0

\* history of a stage call: did it consume an output of an earlier load,
\* and was its predecessor's output missing
StageCall(op, o, input, r) ==
    [op |-> op, err |-> r.err,
     stale |-> r.err = NoError /\ input.some /\ input.run # CurrentRun(o),
     missing |-> ~input.some]

\* history of an accessor call: did it return an output of an earlier load
AccessorCall(op, o, r) ==
    [op |-> op, err |-> r.err,
     stale |-> r.err = NoError /\ r.run # CurrentRun(o),
     missing |-> r.err # NoError]

InitWith(maps) ==
    /\ cfg \in Configs
    /\ obj = [i \in Instances |-> NewAudioProcessor]
    /\ call \in {[t \in Threads |-> IdleCall(m[t])] : m \in maps}
    /\ last = NoCall
    /\ nloads = 0
    /\ tts = NewTextToSpeechHandler
    /\ ollama = NewOllamaService
    /\ ui = NewChatInterface

Busy(t) == call[t].pc \in {"load", "preprocess", "chunk", "generate", "return"}

(***************************************************************************)
(* Direct calls of the public methods on instance i, by a caller that is   *)
(* not inside process_pipeline.                                            *)
(***************************************************************************)
LoadFromBinary(i, b) ==
    /\ \A t \in Threads : ~Busy(t)
    /\ nloads < MaxLoads
    /\ LET r == load_from_binary(obj[i], b, nloads + 1)
       IN  /\ obj' = [obj EXCEPT ![i] = r.obj]
           /\ last' = [op |-> "load", err |-> r.err, stale |-> FALSE,
                       missing |-> FALSE]
    /\ nloads' = nloads + 1
    /\ UNCHANGED <<cfg, call, tts, ollama, ui>>

LoadFromFile(i, file) ==
    /\ \A t \in Threads : ~Busy(t)
    /\ nloads < MaxLoads
    /\ LET r == load_from_file(obj[i], file, nloads + 1)
       IN  /\ obj' = [obj EXCEPT ![i] = r.obj]
           /\ last' = [op |-> "load_file", err |-> r.err, stale |-> FALSE,
                       missing |-> FALSE]
    /\ nloads' = nloads + 1
    /\ UNCHANGED <<cfg, call, tts, ollama, ui>>

Preprocess(i) ==
    /\ \A t \in Threads : ~Busy(t)
    /\ LET r == preprocess(obj[i], cfg)
       IN  /\ obj' = [obj EXCEPT ![i] = r.obj]
           /\ last' = StageCall("preprocess", obj[i], obj[i]._raw_audio, r)
    /\ UNCHANGED <<cfg, call, nloads, tts, ollama, ui>>

ChunkAudio(i) ==
    /\ \A t \in Threads : ~Busy(t)
    /\ LET r == chunk_audio(obj[i], cfg)
       IN  /\ obj' = [obj EXCEPT ![i] = r.obj]
           /\ last' = StageCall("chunk", obj[i], obj[i]._processed_audio, r)
    /\ UNCHANGED <<cfg, call, nloads, tts, ollama, ui>>

GenerateMelSpectrograms(i) ==
    /\ \A t \in Threads : ~Busy(t)
    /\ LET r == generate_mel_spectrograms(obj[i], cfg)
       IN  /\ obj' = [obj EXCEPT ![i] = r.obj]
           /\ last' = StageCall("generate", obj[i], obj[i]._audio_chunks, r)
    /\ UNCHANGED <<cfg, call, nloads, tts, ollama, ui>>

GetMelFeatures(i) ==
    /\ \A t \in Threads : ~Busy(t)
    /\ last' = AccessorCall("mel_features", obj[i], mel_features(obj[i]))
    /\ UNCHANGED <<cfg, obj, call, nloads, tts, ollama, ui>>

GetAudioChunks(i) ==
    /\ \A t \in Threads : ~Busy(t)
    /\ last' = AccessorCall("audio_chunks", obj[i], audio_chunks(obj[i]))
    /\ UNCHANGED <<cfg, obj, call, nloads, tts, ollama, ui>>

GetProcessedAudio(i) ==
    /\ \A t \in Threads : ~Busy(t)
    /\ last' = AccessorCall("processed_audio", obj[i], processed_audio(obj[i]))
    /\ UNCHANGED <<cfg, obj, call, nloads, tts, ollama, ui>>

\* the frames the featurizer is called with directly
Frames == SeqsUpTo(Samples, MaxLen)

\* _chunk_to_mel_spectrogram(frame) called on its own, on a new processor
Featurize(frame) ==
    /\ \A t \in Threads : call[t].pc = "idle"
    /\ nloads = 0
    /\ LET r == chunk_to_mel_spectrogram(frame, cfg)
       IN  last' = [op |-> "featurize", err |-> r.err, stale |-> FALSE,
                    missing |-> FALSE, frame |-> frame,
                    y |-> FixChunkLength(frame, chunk_size(cfg)),
                    tile |-> r.tile]
    /\ UNCHANGED <<cfg, obj, call, nloads, tts, ollama, ui>>

\* the log-mel arrays of mel_bands rows and up to MaxCols columns
LogSpectrograms(n_mels) ==
    { np_log_eps([rows |-> n_mels, cols |-> Len(e),
                  at |-> [p \in Cells(n_mels, Len(e)) |-> p[1] * e[p[2]]]]) :
        e \in SeqsUpTo(Samples, MaxCols) \ {<<>>} }

\* lines 207-212 of _chunk_to_mel_spectrogram run on the log-mel array m
FixTime(m) ==
    /\ \A t \in Threads : call[t].pc = "idle"
    /\ nloads = 0
    /\ last = NoCall
    /\ last' = [op |-> "fix_time", err |-> NoError, stale |-> FALSE,
                missing |-> FALSE, mel_spec |-> m, tile |-> FixTimeSteps(m)]
    /\ UNCHANGED <<cfg, obj, call, nloads, tts, ollama, ui>>

\* inputs of the handler calls: the empty text and two texts; the loaded
\* style ids and one that no model has; the installed names and one more
Texts == {"", "ohayou", "arigatou"}
StyleIds == LoadedStyleIds \cup {9}
ActorNames == DOMAIN InstalledStyles \cup {"nobody"}
StyleNames == {"normal", "sweet", "angry"}

TtsCall(op, text, r) ==
    [r.h EXCEPT !.calls = @ + 1,
                !.last = [op |-> op, err |-> r.err, text |-> text]]

GenerateAudioOutput(voice_style_id, llm_response) ==
    /\ tts.calls < MaxTtsCalls
    /\ tts' = TtsCall("generate_audio_output", llm_response,
                      generate_audio_output_given_voice_ids(
                          tts, voice_style_id, llm_response))
    /\ UNCHANGED <<cfg, obj, call, last, nloads, ollama, ui>>

CreateWavFromLlmResponse(llm_response, voice_actor_name, voice_style_name) ==
    /\ tts.calls < MaxTtsCalls
    /\ tts' = TtsCall("create_wav", llm_response,
                      create_wav_from_llm_response(
                          tts, llm_response, voice_actor_name, voice_style_name))
    /\ UNCHANGED <<cfg, obj, call, last, nloads, ollama, ui>>

\* the voice models a folder can hold: two that both have zundamon's normal
\* style, under different style ids, and one with another actor
ModelIds == 0..(MaxModels - 1)

ModelContents ==
    { << StyleMeta("zundamon", "normal", 3), StyleMeta("zundamon", "sweet", 1) >>,
      << StyleMeta("zundamon", "normal", 7) >>,
      << StyleMeta("metan", "normal", 2), StyleMeta("zundamon", "sweet", 5) >> }

\* folders: files of different ids and different models, listed in any order
Folders ==
    { f \in SeqsUpTo({ VoiceModelFile(id, c) : id \in ModelIds, c \in ModelContents },
                     MaxModels) :
        \A i, j \in 1..Len(f) :
            i # j => f[i].id # f[j].id /\ f[i].metas # f[j].metas }

GetVoiceIdFromNames(voice_actor_name, voice_style_name) ==
    /\ tts.calls < MaxTtsCalls
    /\ LET r == get_voice_id_from_names(tts, voice_actor_name, voice_style_name)
       IN  tts' = [r.h EXCEPT !.calls = @ + 1,
                              !.last = [op |-> "get_voice_id", err |-> r.err,
                                        text |-> "",
                                        actor |-> voice_actor_name,
                                        style |-> voice_style_name,
                                        val |-> r.val]]
    /\ UNCHANGED <<cfg, obj, call, last, nloads, ollama, ui>>

(***************************************************************************)
(* The chat UI (gradio_interface.py, llm/client.py).  A submission asks    *)
(* the LLM server, synthesizes the reply if there is one, and returns the  *)
(* reply with the path of the WAV file; ui.last records what the call      *)
(* returned, the content of the file at the returned path on return, and   *)
(* whether the call wrote that file.                                       *)
(***************************************************************************)
\* what requests.post can bring back: a 200 with a message, or an error status
LlmReplies ==
    { [status_code |-> 200, message |-> [some |-> TRUE, text |-> t]] : t \in Texts }
        \cup { [status_code |-> 500, message |-> None] }

\* prompt_llm(user_prompt, admin_prompt, llm_model_name), given the reply
prompt_llm(response) ==
    IF response.status_code = 200 THEN response.message ELSE None

\* Python truth of a str | None
Truthy(llm_response) == llm_response.some /\ llm_response.text # ""

\* create_output_to_ui(user_prompt, admin_prompt, voice_actor_name,
\* voice_style_name, llm_model): an exception of the handler leaves the call
\* without a return value
CreateOutputToUi(response, voice_actor_name, voice_style_name) ==
    /\ ui.submissions < MaxSubmissions
    /\ LET llm_response == prompt_llm(response)
           r == IF Truthy(llm_response)
                THEN create_wav_from_llm_response(
                         tts, llm_response.text, voice_actor_name, voice_style_name)
                ELSE TtsReturned(tts, None)
       IN  /\ tts' = IF Truthy(llm_response)
                     THEN TtsCall("create_wav", llm_response.text, r)
                     ELSE tts
           /\ ui' = [submissions |-> ui.submissions + 1,
                     last |-> IF r.err # NoError
                              THEN [NoSubmission EXCEPT
                                       !.op = "create_output_to_ui",
                                       !.err = r.err]
                              ELSE [op |-> "create_output_to_ui",
                                    err |-> NoError,
                                    llm_response |-> llm_response,
                                    audio |-> r.h.wav_file,
                                    written |-> r.h.wav_writes > tts.wav_writes]]
    /\ UNCHANGED <<cfg, obj, call, last, nloads, ollama>>

(***************************************************************************)
(* POST /prompt: prompt_ollama runs in a worker thread per request, all on *)
(* the one module-level handler; one step per statement of handle and per  *)
(* field read of parse_response.                                           *)
(***************************************************************************)
OllamaModels == {"gemma3", "llama3"}
UserPrompts == { <<"h", "i">>, <<"a", "\n", "b">> }
AdminPrompts == { <<>>, <<"b", "\t">> }

RequestBodies ==
    [model : OllamaModels, user_prompt : UserPrompts, admin_prompt : AdminPrompts]

\* ollama.chat(model, messages): the reply is to what the model was asked
chat(model, admin_prompt, user_prompt) ==
    [some |-> TRUE, model |-> model, admin_prompt |-> admin_prompt,
     user_prompt |-> user_prompt]

OllamaStep(r, pc, handler, req) ==
    ollama' = [handler |-> handler,
               req |-> [ollama.req EXCEPT ![r] = [req EXCEPT !.pc = pc]]]

\* prompt_ollama(request): the default admin prompt replaces an empty one
PromptOllama(r, body) ==
    /\ ollama.req[r].pc = "idle"
    /\ OllamaStep(r, "set_model", ollama.handler,
                  [NoRequest EXCEPT
                      !.body = IF body.admin_prompt = <<>>
                               THEN [body EXCEPT !.admin_prompt = DEFAULT_ADMIN_PROMPT]
                               ELSE body])
    /\ UNCHANGED <<cfg, obj, call, last, nloads, tts, ui>>

\* handle: self._set_model(request_body.model)
SetModel(r) ==
    /\ ollama.req[r].pc = "set_model"
    /\ OllamaStep(r, "set_admin",
                  [ollama.handler EXCEPT !.model = ollama.req[r].body.model],
                  ollama.req[r])
    /\ UNCHANGED <<cfg, obj, call, last, nloads, tts, ui>>

\* handle: self._update_admin_prompt(request_body.admin_prompt)
UpdateAdminPrompt(r) ==
    /\ ollama.req[r].pc = "set_admin"
    /\ OllamaStep(r, "set_user",
                  [ollama.handler EXCEPT
                      !.admin_prompt = ollama.req[r].body.admin_prompt],
                  ollama.req[r])
    /\ UNCHANGED <<cfg, obj, call, last, nloads, tts, ui>>

\* handle: self._update_user_prompt(request_body.user_prompt)
UpdateUserPrompt(r) ==
    /\ ollama.req[r].pc = "set_user"
    /\ OllamaStep(r, "chat",
                  [ollama.handler EXCEPT
                      !.user_prompt = ollama.req[r].body.user_prompt],
                  ollama.req[r])
    /\ UNCHANGED <<cfg, obj, call, last, nloads, tts, ui>>

\* handle: chat(model=self.model, messages=[self.admin_prompt, self.user_prompt])
Chat(r) ==
    /\ ollama.req[r].pc = "chat"
    /\ OllamaStep(r, "parse_model", ollama.handler,
                  [ollama.req[r] EXCEPT
                      !.queried = chat(ollama.handler.model,
                                       ollama.handler.admin_prompt,
                                       ollama.handler.user_prompt)])
    /\ UNCHANGED <<cfg, obj, call, last, nloads, tts, ui>>

\* parse_response: model=self.model
ParseModel(r) ==
    /\ ollama.req[r].pc = "parse_model"
    /\ OllamaStep(r, "parse_user", ollama.handler,
                  [ollama.req[r] EXCEPT
                      !.response = [some |-> TRUE,
                                    model |-> ollama.handler.model,
                                    message |-> ollama.req[r].queried]])
    /\ UNCHANGED <<cfg, obj, call, last, nloads, tts, ui>>

\* parse_response: user_prompt=remove_seperators_from_text(self.user_prompt['content'])
ParseUserPrompt(r) ==
    /\ ollama.req[r].pc = "parse_user"
    /\ OllamaStep(r, "parse_admin", ollama.handler,
                  [ollama.req[r] EXCEPT
                      !.response = [f \in DOMAIN @ \cup {"user_prompt"} |->
                                      IF f = "user_prompt"
                                      THEN remove_seperators_from_text(
                                               ollama.handler.user_prompt)
                                      ELSE @[f]]])
    /\ UNCHANGED <<cfg, obj, call, last, nloads, tts, ui>>

\* parse_response: admin_prompt=remove_seperators_from_text(self.admin_prompt['content'])
ParseAdminPrompt(r) ==
    /\ ollama.req[r].pc = "parse_admin"
    /\ OllamaStep(r, "done", ollama.handler,
                  [ollama.req[r] EXCEPT
                      !.response = [f \in DOMAIN @ \cup {"admin_prompt"} |->
                                      IF f = "admin_prompt"
                                      THEN remove_seperators_from_text(
                                               ollama.handler.admin_prompt)
                                      ELSE @[f]]])
    /\ UNCHANGED <<cfg, obj, call, last, nloads, tts, ui>>

(***************************************************************************)
(* process_pipeline(audio_binary), one step per statement.  An exception   *)
(* of a statement leaves the method at once: it has no try block.          *)
(***************************************************************************)
\* a process_pipeline that carries on after a failed stage
NextPcCarryOn(pc, err) ==
    CASE pc = "load" -> "preprocess"
      [] pc = "preprocess" -> "chunk"
      [] pc = "chunk" -> "generate"
      [] pc = "generate" -> "return"
      [] pc = "return" -> IF err # NoError THEN "raised" ELSE "done"

\* where process_pipeline stands after the statement at pc ended with err
NextPc(pc, err) ==
    IF err # NoError THEN "raised"
    ELSE CASE pc = "load" -> "preprocess"
           [] pc = "preprocess" -> "chunk"
           [] pc = "chunk" -> "generate"
           [] pc = "generate" -> "return"
           [] pc = "return" -> "done"

\* the invocation after a stage statement ended with result r
AfterStage(k, r) ==
    [k EXCEPT !.pc = NextPc(k.pc, r.err), !.err = r.err, !.cause = r.cause,
              !.ran = Append(k.ran, k.pc)]

\* the invocation after "return self.mel_features" evaluated to r
AfterReturn(k, r) ==
    [k EXCEPT !.pc = NextPc(k.pc, r.err), !.err = r.err, !.cause = r.err,
              !.ret = IF r.err = NoError THEN Some(r.val, r.run) ELSE None]

PipelineCall(t, b, limit) ==
    /\ \A u \in Threads : ~Busy(u)
    /\ nloads < limit
    /\ call' = [call EXCEPT ![t] = [IdleCall(call[t].inst) EXCEPT
                                       !.pc = "load", !.input = b]]
    /\ UNCHANGED <<cfg, obj, last, nloads, tts, ollama, ui>>

\* a second caller enters process_pipeline while the first is inside it
ConcurrentCall(t, b) ==
    /\ call[t].pc = "idle"
    /\ call' = [call EXCEPT ![t] = [@ EXCEPT !.pc = "load", !.input = b]]
    /\ UNCHANGED <<cfg, obj, last, nloads, tts, ollama, ui>>

\* stage outputs kept in one place for all instances (class attributes)
SharedSelf(t) == 1

\* self inside caller t's process_pipeline: the stage outputs are attributes
\* of the instance the method was called on
Self(t) == call[t].inst

PipelineLoad(t) ==
    /\ call[t].pc = "load"
    /\ LET i == Self(t)
           r == load_from_binary(obj[i], call[t].input, nloads + 1)
       IN  /\ obj' = [obj EXCEPT ![i] = r.obj]
           /\ call' = [call EXCEPT ![t] = AfterStage(call[t], r)]
           /\ last' = [op |-> "load", err |-> r.err, stale |-> FALSE,
                       missing |-> FALSE]
    /\ nloads' = nloads + 1
    /\ UNCHANGED <<cfg, tts, ollama, ui>>

PipelinePreprocess(t) ==
    /\ call[t].pc = "preprocess"
    /\ LET i == Self(t)
           r == preprocess(obj[i], cfg)
       IN  /\ obj' = [obj EXCEPT ![i] = r.obj]
           /\ call' = [call EXCEPT ![t] = AfterStage(call[t], r)]
           /\ last' = StageCall("preprocess", obj[i], obj[i]._raw_audio, r)
    /\ UNCHANGED <<cfg, nloads, tts, ollama, ui>>

PipelineChunk(t) ==
    /\ call[t].pc = "chunk"
    /\ LET i == Self(t)
           r == chunk_audio(obj[i], cfg)
       IN  /\ obj' = [obj EXCEPT ![i] = r.obj]
           /\ call' = [call EXCEPT ![t] = AfterStage(call[t], r)]
           /\ last' = StageCall("chunk", obj[i], obj[i]._processed_audio, r)
    /\ UNCHANGED <<cfg, nloads, tts, ollama, ui>>

PipelineGenerate(t) ==
    /\ call[t].pc = "generate"
    /\ LET i == Self(t)
           r == generate_mel_spectrograms(obj[i], cfg)
       IN  /\ obj' = [obj EXCEPT ![i] = r.obj]
           /\ call' = [call EXCEPT ![t] = AfterStage(call[t], r)]
           /\ last' = StageCall("generate", obj[i], obj[i]._audio_chunks, r)
    /\ UNCHANGED <<cfg, nloads, tts, ollama, ui>>

PipelineReturn(t) ==
    /\ call[t].pc = "return"
    /\ LET i == Self(t)
           r == mel_features(obj[i])
       IN  /\ call' = [call EXCEPT ![t] = AfterReturn(call[t], r)]
           /\ last' = AccessorCall("mel_features", obj[i], r)
    /\ UNCHANGED <<cfg, obj, nloads, tts, ollama, ui>>

PipelineStep(t) ==
    \/ PipelineLoad(t)
    \/ PipelinePreprocess(t)
    \/ PipelineChunk(t)
    \/ PipelineGenerate(t)
    \/ PipelineReturn(t)

(***************************************************************************)
(* Specifications.                                                         *)
(***************************************************************************)
\* SpecRun: one process_pipeline call on a new AudioProcessor, over all the
\* inputs up to MaxLen samples.
InitRun == InitWith({[t \in Threads |-> 1]})

NextRun ==
    \/ \E b \in RunBlobs : PipelineCall(1, b, 1)
    \/ PipelineStep(1)

SpecRun == InitRun /\ [][NextRun]_vars

\* SpecFeat: the featurizer on any frame up to MaxLen samples, and one
\* process_pipeline call.
NextFeat ==
    \/ \E frame \in Frames : Featurize(frame)
    \/ \E b \in CallBlobs : PipelineCall(1, b, 1)
    \/ PipelineStep(1)

SpecFeat == InitRun /\ [][NextFeat]_vars

\* Spec: one caller, one AudioProcessor, any sequence of method calls.
Init == InitWith({[t \in Threads |-> 1]})

Next ==
    \/ \E b \in CallBlobs : LoadFromBinary(1, b)
    \/ \E file \in CallBlobs : LoadFromFile(1, file)
    \/ Preprocess(1)
    \/ ChunkAudio(1)
    \/ GenerateMelSpectrograms(1)
    \/ GetMelFeatures(1)
    \/ GetAudioChunks(1)
    \/ GetProcessedAudio(1)
    \/ \E b \in CallBlobs : PipelineCall(1, b, MaxLoads)
    \/ PipelineStep(1)

Spec == Init /\ [][Next]_vars

\* SpecConc: two callers inside process_pipeline at once, on one shared
\* AudioProcessor or on one each; their statements interleave.
InitConc == InitWith({[t \in Threads |-> 1], [t \in Threads |-> t]})

NextConc ==
    \E t \in Threads :
        \/ \E b \in CallBlobs : ConcurrentCall(t, b)
        \/ PipelineStep(t)

SpecConc == InitConc /\ [][NextConc]_vars

(***************************************************************************)
(* Properties of the chunker, checked under SpecRun on every state in      *)
(* which process_pipeline's chunk_audio has stored its frames.             *)
(***************************************************************************)
\* the processed audio and the frames chunk_audio made of it
Audio == obj[1]._processed_audio.val

FramesStored == obj[1]._audio_chunks.val

Chunked == obj[1]._audio_chunks.some

\* C1: after chunk_audio (chunk_size >= 1), every stored frame has exactly
\* chunk_size samples, and the positions of the final frame past the last
\* real sample hold zero.
C1_FrameLengthAndZeroPadding ==
    Chunked =>
        LET cs == chunk_size(cfg)
            n == Len(FramesStored)
        IN  /\ cs >= 1
            /\ \A k \in 1..n : Len(FramesStored[k]) = cs
            /\ \A k \in 1..n : \A p \in 1..cs :
                   (k - 1) * cs + p > Len(Audio) => k = n /\ FramesStored[k][p] = 0

\* a final frame with real samples and padding, after a full frame
C1_Witness ==
    /\ Chunked
    /\ Len(FramesStored) = 2
    /\ chunk_size(cfg) = 3
    /\ Len(Audio) = 4
    /\ Audio[4] # 0

\* C2: chunk_audio drops and reorders no sample: sample i of the processed
\* audio is at position i mod chunk_size of frame i div chunk_size.
C2_NoSampleDroppedOrMoved ==
    Chunked =>
        LET cs == chunk_size(cfg)
        IN  \A i \in 0..(Len(Audio) - 1) :
                /\ (i \div cs) + 1 <= Len(FramesStored)
                /\ (i % cs) + 1 <= Len(FramesStored[(i \div cs) + 1])
                /\ FramesStored[(i \div cs) + 1][(i % cs) + 1] = Audio[i + 1]

\* three frames of two samples, with samples that differ
C2_Witness ==
    /\ Chunked
    /\ chunk_size(cfg) = 2
    /\ Len(Audio) = 5
    /\ Audio[1] # Audio[2]
    /\ Audio[4] # Audio[5]
    /\ Len(FramesStored) = 3

\* create_audio_processor(): 16 kHz, 20 ms, 80 bands
DefaultConfig ==
    [target_sample_rate |-> 16000, chunk_duration_ms |-> 20, mel_bands |-> 80]

\* n samples, none of them zero
Tone(n) == [k \in 1..n |-> 2]

\* the frames chunk_audio stores for processed audio a under configuration c
FramesOf(a, c) ==
    chunk_audio([NewAudioProcessor EXCEPT !._processed_audio = Some(a, 1)], c)
        .obj._audio_chunks.val

\* 16000 samples in frames of 320: 50 frames, no padding
Scenario16000 ==
    LET fr == FramesOf(Tone(16000), DefaultConfig)
    IN  /\ chunk_size(DefaultConfig) = 320
        /\ Len(fr) = 50
        /\ \A k \in 1..Len(fr) : fr[k] = Tone(320)

\* 16010 samples: 51 frames, the last with 10 samples and 310 zeros
Scenario16010 ==
    LET fr == FramesOf(Tone(16010), DefaultConfig)
    IN  /\ Len(fr) = 51
        /\ \A k \in 1..50 : fr[k] = Tone(320)
        /\ fr[51] = Tone(10) \o [k \in 1..310 |-> 0]

\* C3: non-empty processed audio of n samples gives ceil(n / chunk_size)
\* frames; 16000 samples in frames of 320 give 50 frames without padding,
\* 16010 samples give 51 frames, the last of 10 samples and 310 zeros.
C3_FrameCount ==
    /\ Chunked /\ Len(Audio) > 0 =>
           Len(FramesStored) = CeilDiv(Len(Audio), chunk_size(cfg))
    /\ Scenario16000
    /\ Scenario16010

\* a count that ceil and floor tell apart
C3_Witness ==
    /\ Chunked
    /\ Len(Audio) = 5
    /\ chunk_size(cfg) = 3
    /\ Len(FramesStored) = 2

(***************************************************************************)
(* Zero-length audio, checked under SpecRun.                               *)
(***************************************************************************)
\* the run's processed audio has no samples
EmptyAudio == obj[1]._processed_audio.some /\ Audio = <<>>

\* no stage after preprocess raised, and what is stored and returned is empty
EmptyThroughout ==
    /\ call[1].pc # "raised"
    /\ Chunked => FramesStored = <<>>
    /\ obj[1]._mel_features.some => obj[1]._mel_features.val = <<>>
    /\ call[1].pc = "done" => call[1].ret.val = <<>>

\* C4 as stated: zero-length processed audio gives an empty frame list and an
\* empty tile list, and chunk_audio, generate_mel_spectrograms and the
\* mel_features accessor raise nothing for it.
C4_EmptyAudioNeverRaises == EmptyAudio => EmptyThroughout

\* C4 as amended: the same for every configuration with chunk_size >= 1.
C4_EmptyAudioWithPositiveChunkSize ==
    EmptyAudio /\ chunk_size(cfg) >= 1 => EmptyThroughout

\* process_pipeline returned the empty list for audio without samples, with
\* the smallest chunk_size (and a hop_length of 0 no frame ever meets)
C4_Witness ==
    /\ EmptyAudio
    /\ chunk_size(cfg) = 1
    /\ call[1].pc = "done"
    /\ call[1].ret.val = <<>>
    /\ FramesStored = <<>>

(***************************************************************************)
(* The shape of a tile, checked under SpecFeat.                            *)
(***************************************************************************)
WellShaped(tile) ==
    /\ shape(tile) = <<cfg.mel_bands, 4>>
    /\ DOMAIN tile.at = (1..cfg.mel_bands) \X (1..4)

AllWellShaped(tiles) == \A k \in 1..Len(tiles) : WellShaped(tiles[k])

\* C5: every tile _chunk_to_mel_spectrogram returns, and every tile stored
\* in or returned from the feature list, has shape (mel_bands, 4) whatever
\* the frame's content or length; the final assertion never fails.
C5_TileShape ==
    /\ last.op = "featurize" =>
           /\ last.err # "AssertionError"
           /\ last.err = NoError => WellShaped(last.tile)
    /\ call[1].err # "AssertionError"
    /\ obj[1]._mel_features.some => AllWellShaped(obj[1]._mel_features.val)
    /\ call[1].ret.some => AllWellShaped(call[1].ret.val)

\* a tile made of a frame longer than chunk_size, whose analysis has 3 columns
C5_Witness ==
    /\ last.op = "featurize"
    /\ last.err = NoError
    /\ Len(last.frame) = 5
    /\ last.frame[1] # 0
    /\ chunk_size(cfg) = 2
    /\ cfg.mel_bands = 2
    /\ shape(last.tile) = <<2, 4>>

(***************************************************************************)
(* Stage order and stale outputs, checked under Spec.                      *)
(***************************************************************************)
\* the output stage op needs is absent from the fields o
MissingPredecessor(op, o) ==
    \/ op = "preprocess" /\ ~o._raw_audio.some
    \/ op = "chunk" /\ ~o._processed_audio.some
    \/ op = "generate" /\ ~o._audio_chunks.some

\* C6: preprocess with no raw audio, chunk_audio with no processed audio and
\* generate_mel_spectrograms with no chunks each raise, and the failed call
\* leaves the four stored stage outputs unchanged.
C6_StageNeedsPredecessor ==
    [][MissingPredecessor(last'.op, obj[1]) =>
          /\ last'.err \in {"RuntimeError: No audio loaded",
                            "RuntimeError: No processed audio",
                            "RuntimeError: No audio chunks"}
          /\ obj' = obj]_vars

\* chunk_audio was refused on a processor that has audio loaded
C6_Witness ==
    /\ last.op = "chunk"
    /\ last.err = "RuntimeError: No processed audio"
    /\ obj[1]._raw_audio.some
    /\ ~obj[1]._processed_audio.some
    /\ ~obj[1]._audio_chunks.some

\* C7: once new audio has been loaded, no later stage consumes and no
\* accessor returns processed audio, chunks or mel features derived from
\* previously loaded audio.
C7_NoOutputOfEarlierLoadUsed == ~last.stale

\* C8: process_pipeline runs load, preprocess, chunk, generate in that order,
\* each at most once; after a failed stage no later stage runs, nothing is
\* retried, and the call raises instead of returning a tile list.
C8_FailFast ==
    LET k == call[1]
    IN  /\ Len(k.ran) <= Len(Stages)
        /\ \A n \in 1..Len(k.ran) : k.ran[n] = Stages[n]
        /\ k.pc \in {"preprocess", "chunk", "generate"} =>
               Len(k.ran) < Len(Stages) /\ Stages[Len(k.ran) + 1] = k.pc
        /\ k.err # NoError => k.pc = "raised"
        /\ k.pc = "raised" => k.err # NoError /\ ~k.ret.some
        /\ k.pc = "done" => k.ran = Stages /\ k.ret.some

\* process_pipeline raised at its second stage on a processor that holds the
\* tiles of an earlier run, and returned none of them
C8_Witness ==
    /\ call[1].pc = "raised"
    /\ call[1].ran = <<"load", "preprocess">>
    /\ obj[1]._mel_features.some
    /\ obj[1]._mel_features.val # <<>>
    /\ ~call[1].ret.some

\* C10: the error process_pipeline's caller receives is the error the failing
\* stage's body raised: no handler and no orchestrator replaces or wraps it.
C10_ErrorUnmodified ==
    call[1].pc = "raised" =>
        /\ call[1].cause # NoError
        /\ call[1].err = call[1].cause

\* the resampler's ValueError reached the caller through preprocess's handler
C10_Witness ==
    /\ call[1].pc = "raised"
    /\ call[1].ran = <<"load", "preprocess">>
    /\ call[1].err = "ValueError: input too small to resample"

(***************************************************************************)
(* Concurrent process_pipeline calls, checked under SpecConc.              *)
(***************************************************************************)
\* what process_pipeline(b) gives on a processor of its own: [err, tiles]
SoloRun(b, c) ==
    LET r1 == load_from_binary(NewAudioProcessor, b, 1)
        r2 == preprocess(r1.obj, c)
        r3 == chunk_audio(r2.obj, c)
        r4 == generate_mel_spectrograms(r3.obj, c)
    IN  IF r1.err # NoError THEN [err |-> r1.err, tiles |-> <<>>]
        ELSE IF r2.err # NoError THEN [err |-> r2.err, tiles |-> <<>>]
        ELSE IF r3.err # NoError THEN [err |-> r3.err, tiles |-> <<>>]
        ELSE IF r4.err # NoError THEN [err |-> r4.err, tiles |-> <<>>]
        ELSE [err |-> NoError, tiles |-> r4.obj._mel_features.val]

\* caller t's call has ended as it would have ended alone
OwnResult(t) ==
    /\ call[t].pc = "done" =>
           /\ SoloRun(call[t].input, cfg).err = NoError
           /\ call[t].ret.val = SoloRun(call[t].input, cfg).tiles
    /\ call[t].pc = "raised" => call[t].err = SoloRun(call[t].input, cfg).err

\* C9 as stated: under every interleaving of two process_pipeline calls, on
\* separate instances or on one shared instance, each call returns the tile
\* sequence computed from its own input.
C9_NoInterference == \A t \in Threads : OwnResult(t)

\* C9 as amended: the same for calls on separate instances.
C9_NoInterferenceOnSeparateInstances ==
    \A t \in Threads :
        (\A u \in Threads \ {t} : call[u].inst # call[t].inst) => OwnResult(t)

\* two interleaved calls on separate instances returned different tiles
C9_Witness ==
    /\ call[1].inst # call[2].inst
    /\ call[1].pc = "done"
    /\ call[2].pc = "done"
    /\ call[1].ret.val # <<>>
    /\ call[2].ret.val # <<>>
    /\ call[1].ret.val # call[2].ret.val

(***************************************************************************)
(* The stage an error names, checked under Spec.                           *)
(***************************************************************************)
\* The stage the exception e carries with it.  Every handler re-raises the
\* exception it caught with a bare raise, after naming its stage in the log
\* line only; the guards raise a plain RuntimeError; process_pipeline adds
\* nothing.  No exception carries a stage.
StageTagOf(e) == "untagged"

\* the stage of caller t's process_pipeline that failed
FailedStage(t) ==
    IF call[t].ran = <<>> THEN "none"
    ELSE LET s == call[t].ran[Len(call[t].ran)]
         IN  IF s = "generate" THEN "featurize" ELSE s

\* C11: the error a failed process_pipeline run delivers to its caller is
\* tagged with the stage (load, preprocess, chunk or featurize) that
\* produced it.
C11_ErrorTaggedWithStage ==
    call[1].pc = "raised" => StageTagOf(call[1].err) = FailedStage(1)

(***************************************************************************)
(* One tile per frame, in frame order, checked under SpecRun.              *)
(***************************************************************************)
TilesStored == obj[1]._mel_features.val

\* C12: when generate_mel_spectrograms has returned, there is exactly one
\* tile per stored frame and tile i is the featurization of frame i: no
\* tile is missing, added or out of order.
C12_OneTilePerFrameInOrder ==
    obj[1]._mel_features.some =>
        /\ Len(TilesStored) = Len(FramesStored)
        /\ \A i \in 1..Len(FramesStored) :
              TilesStored[i] = chunk_to_mel_spectrogram(FramesStored[i], cfg).tile

\* three frames were featurized and the first and last tiles differ
C12_Witness ==
    /\ obj[1]._mel_features.some
    /\ Len(TilesStored) = 3
    /\ Len(FramesStored) = 3
    /\ TilesStored[1] # TilesStored[3]

(***************************************************************************)
(* The normalized audio, checked under SpecRun.                            *)
(***************************************************************************)
Raw == obj[1]._raw_audio.val
NativeRate == obj[1].original_sample_rate.val
Preprocessed == obj[1]._processed_audio.some

\* C13: after a successful preprocess the processed audio is single-channel
\* and at the target sample rate: every processed sample is one number, the
\* mean of the channels of a raw frame when the raw audio is multi-channel,
\* and the processed audio holds the number of samples the raw duration has
\* at the target rate.
C13_MonoAtTargetRate ==
    Preprocessed =>
        /\ Len(Audio) = (Len(Raw.data) * cfg.target_sample_rate) \div NativeRate
        /\ Raw.ndim > 1 =>
              \A j \in 1..Len(Audio) :
                 \E k \in 1..Len(Raw.data) :
                    /\ 2 * Audio[j] = Raw.data[k][1] + Raw.data[k][2]
                    /\ NativeRate = cfg.target_sample_rate => k = j
        /\ Raw.ndim = 1 =>
              \A j \in 1..Len(Audio) :
                 \E k \in 1..Len(Raw.data) :
                    /\ Audio[j] = Raw.data[k]
                    /\ NativeRate = cfg.target_sample_rate => k = j

\* a two-channel frame with different channels was mixed down to its mean
C13_Witness ==
    /\ Preprocessed
    /\ Raw.ndim = 2
    /\ Raw.data = << <<0, 2>> >>
    /\ Audio = <<1>>

\* C14: when the native rate of the loaded audio equals the target rate no
\* resampling takes place; for a mono source the processed audio is then
\* identical to the raw audio, and applying preprocess again gives the same
\* result.
C14_NoResampleAtTargetRate ==
    (Preprocessed /\ NativeRate = cfg.target_sample_rate) =>
        /\ Raw.ndim = 1 => Audio = Raw.data
        /\ Raw.ndim > 1 => Len(Audio) = Len(Raw.data)
        /\ preprocess(obj[1], cfg).err = NoError
        /\ preprocess(obj[1], cfg).obj = obj[1]

\* a mono source at the target rate with samples that differ was preprocessed
C14_Witness ==
    /\ Preprocessed
    /\ NativeRate = cfg.target_sample_rate
    /\ Raw.ndim = 1
    /\ Len(Raw.data) = MaxLen
    /\ Raw.data[1] # Raw.data[2]
    /\ Audio = Raw.data

(***************************************************************************)
(* History independence of process_pipeline, checked under Spec: the run   *)
(* on the used instance against the run of a fresh instance (SoloRun).     *)
(***************************************************************************)
\* C15: two successful process_pipeline runs with the same input bytes and
\* the same configuration return equal tile sequences, whatever was done
\* before on either instance: the run that ends on an instance with any
\* history of loads, stages, accessor calls and earlier runs returns the
\* tiles the run on a new instance returns.
C15_HistoryIndependent ==
    \A b \in CallBlobs :
        (call[1].pc = "done" /\ call[1].input = b /\ SoloRun(b, cfg).err = NoError)
            => call[1].ret.val = SoloRun(b, cfg).tiles

\* a run ended with tiles on an instance with an earlier load behind it, and
\* another source would have given different tiles
C15_Witness ==
    /\ call[1].pc = "done"
    /\ nloads = MaxLoads
    /\ call[1].ret.val # <<>>
    /\ \E b \in CallBlobs :
          /\ SoloRun(b, cfg).err = NoError
          /\ SoloRun(b, cfg).tiles # call[1].ret.val
          /\ SoloRun(b, cfg).tiles # <<>>

(***************************************************************************)
(* The loaders alone: load_from_binary and load_from_file called in any    *)
(* order on one instance.                                                  *)
(***************************************************************************)
NextLoad ==
    \/ \E b \in CallBlobs : LoadFromBinary(1, b)
    \/ \E file \in CallBlobs : LoadFromFile(1, file)

SpecLoad == Init /\ [][NextLoad]_vars

\* C16: when the source cannot be decoded as audio, load_from_binary and
\* load_from_file raise an error that carries the decoder's own failure, and
\* the stored raw audio and original sample rate keep the values they had
\* before the call.
C16_FailedLoadKeepsState ==
    [][\A b \in CallBlobs :
          (~b.valid /\ (LoadFromBinary(1, b) \/ LoadFromFile(1, b))) =>
              /\ last'.err = sf_read(b).err
              /\ last'.err # NoError
              /\ obj'[1]._raw_audio = obj[1]._raw_audio
              /\ obj'[1].original_sample_rate = obj[1].original_sample_rate]_vars

\* load_from_file failed on an instance that held decoded audio, which it
\* still holds
C16_Witness ==
    /\ last.op = "load_file"
    /\ last.err = "LibsndfileError"
    /\ nloads = 2
    /\ obj[1]._raw_audio.some
    /\ obj[1]._raw_audio.run = 1
    /\ obj[1].original_sample_rate.some

(***************************************************************************)
(* The time-axis correction on its own: lines 207-212 applied to log-mel   *)
(* arrays of every width from 1 to MaxCols.  (Inside the class the array   *)
(* has 1 + chunk_size // hop_length columns, which is 3 or 4.)             *)
(***************************************************************************)
NextTime == \E m \in LogSpectrograms(cfg.mel_bands) : FixTime(m)

SpecTime == InitRun /\ [][NextTime]_vars

\* C17: when the spectrogram has fewer than 4 columns, every missing column
\* of the tile is a copy of the spectrogram's last column, never zeros; when
\* it has more than 4, the tile is exactly its first 4 columns; when it has
\* exactly 4 it is unchanged.
C17_TimeAxisCorrection ==
    last.op = "fix_time" =>
        LET m == last.mel_spec
            tile == last.tile
        IN  /\ shape(tile) = <<m.rows, TimeSteps>>
            /\ DOMAIN tile.at = Cells(m.rows, TimeSteps)
            /\ \A p \in Cells(m.rows, TimeSteps) :
                  tile.at[p] = IF p[2] <= m.cols THEN m.at[p]
                               ELSE m.at[<<p[1], m.cols>>]
            /\ m.cols = TimeSteps => tile = m

\* a spectrogram of more than 4 columns, whose later columns differ from its
\* fourth, was cut to its first 4
C17_Witness ==
    /\ last.op = "fix_time"
    /\ last.mel_spec.cols = MaxCols
    /\ last.mel_spec.at[<<1, MaxCols>>] # last.mel_spec.at[<<1, TimeSteps>>]
    /\ last.tile.cols = TimeSteps
    /\ last.tile.at[<<1, TimeSteps>>] = last.mel_spec.at[<<1, TimeSteps>>]

(***************************************************************************)
(* The frame the analysis is given, checked under SpecFeat: last.y is the  *)
(* local audio_chunk of _chunk_to_mel_spectrogram after lines 183-189.     *)
(***************************************************************************)
\* C18: before analysis a frame shorter than chunk_size is extended with
\* trailing zeros to chunk_size, a frame longer than chunk_size is cut to its
\* first chunk_size samples, and a frame of exactly chunk_size samples is
\* left unchanged.
C18_FrameNormalized ==
    last.op = "featurize" =>
        LET cs == chunk_size(cfg)
            n == Len(last.frame)
        IN  /\ Len(last.y) = cs
            /\ \A i \in 1..cs :
                  last.y[i] = IF i <= n THEN last.frame[i] ELSE 0
            /\ n = cs => last.y = last.frame

\* a frame longer than chunk_size, with a loud sample past chunk_size, was
\* cut to its first chunk_size samples
C18_Witness ==
    /\ last.op = "featurize"
    /\ chunk_size(cfg) = 2
    /\ Len(last.frame) = MaxLen
    /\ last.frame[MaxLen] = 2
    /\ last.y = SubSeq(last.frame, 1, 2)
    /\ last.err = NoError

(***************************************************************************)
(* The silent frame, checked under SpecFeat.                               *)
(***************************************************************************)
Silent(frame) == \A i \in 1..Len(frame) : frame[i] = 0

\* log(0 + 1e-8), the floor of the log compression
LogFloor == [log_num |-> 0, log_eps |-> 1]

\* the value stands for the logarithm of a positive number: neither NaN nor
\* negative infinity
Finite(v) == v.log_num >= 0 /\ (v.log_num > 0 \/ v.log_eps > 0)

SilentTile(tile) ==
    /\ WellShaped(tile)
    /\ \A p \in Cells(cfg.mel_bands, TimeSteps) :
          tile.at[p] = LogFloor /\ Finite(tile.at[p])

\* C19 as stated: a completely silent frame (all samples zero) yields a tile
\* of the target shape in which every value is log(1e-8); the featurizer
\* does not raise and produces no NaN or negative infinity.
C19_SilentFrame ==
    (last.op = "featurize" /\ Silent(last.frame)) =>
        last.err = NoError /\ SilentTile(last.tile)

\* C19 as amended: the same for every configuration whose hop_length is at
\* least 1, that is whose chunk_size is at least 2.
C19_SilentFrameWithPositiveHop ==
    (last.op = "featurize" /\ Silent(last.frame) /\ hop_length(cfg) >= 1) =>
        last.err = NoError /\ SilentTile(last.tile)

\* a silent frame of several samples was featurized into a floor tile
C19_Witness ==
    /\ last.op = "featurize"
    /\ Len(last.frame) >= 2
    /\ Silent(last.frame)
    /\ hop_length(cfg) >= 1
    /\ last.err = NoError
    /\ SilentTile(last.tile)

(***************************************************************************)
(* The TextToSpeechHandler: generate_audio_output_given_voice_ids and      *)
(* create_wav_from_llm_response called in any order on one handler.        *)
(***************************************************************************)
NextTts ==
    \/ \E id \in StyleIds, text \in Texts : GenerateAudioOutput(id, text)
    \/ \E text \in Texts, actor \in ActorNames, style \in StyleNames :
          CreateWavFromLlmResponse(text, actor, style)

SpecTts == Init /\ [][NextTts]_vars

SynthesizerUntouched ==
    /\ tts'.synth_calls = tts.synth_calls
    /\ tts'.audio_query = tts.audio_query
    /\ tts'.audio_output = tts.audio_output

\* C20: empty synthesis text is rejected at once and without retry:
\* generate_audio_output_given_voice_ids with zero-length text raises before
\* the synthesizer is called and leaves audio_query and audio_output
\* unchanged, so create_wav_from_llm_response writes no WAV file for it.
C20_EmptyTextRejected ==
    [][/\ \A id \in StyleIds :
            GenerateAudioOutput(id, "") =>
                /\ tts'.last.err = "ValueError: Text input is empty."
                /\ SynthesizerUntouched
       /\ \A actor \in ActorNames, style \in StyleNames :
            CreateWavFromLlmResponse("", actor, style) =>
                /\ tts'.last.err # NoError
                /\ SynthesizerUntouched
                /\ tts'.wav_file = tts.wav_file
                /\ tts'.wav_writes = tts.wav_writes]_vars

\* create_wav_from_llm_response was refused the empty text for an installed
\* voice, on a handler that holds the query, the audio and the WAV file of an
\* earlier text
C20_Witness ==
    /\ tts.last.op = "create_wav"
    /\ tts.last.text = ""
    /\ tts.last.err = "ValueError: Text input is empty."
    /\ tts.audio_query.some
    /\ tts.audio_output.some
    /\ tts.wav_file.some
    /\ tts.wav_writes = 1

(***************************************************************************)
(* chunk_audio keeps nothing between calls, checked under Spec.            *)
(***************************************************************************)
\* C21: the frames chunk_audio produces depend only on the current processed
\* audio and chunk_size, not on frames left by an earlier call: each
\* successful call stores the frames a new instance makes of the same
\* audio, and a call that follows a successful chunk_audio directly stores
\* the same frame list again.
C21_ChunkingStateless ==
    [][(ChunkAudio(1) /\ last'.err = NoError) =>
          /\ obj'[1]._audio_chunks.val = FramesOf(obj[1]._processed_audio.val, cfg)
          /\ (last.op = "chunk" /\ last.err = NoError) =>
                obj'[1]._audio_chunks.val = obj[1]._audio_chunks.val]_vars

\* chunk_audio stored one frame for the audio of the second load
C21_Witness ==
    /\ last.op = "chunk"
    /\ last.err = NoError
    /\ nloads = 2
    /\ obj[1]._audio_chunks.run = 2
    /\ Len(obj[1]._audio_chunks.val) = 1
    /\ ~Busy(1)
    /\ call[1].pc = "idle"

(***************************************************************************)
(* What a load leaves alone, checked under Spec.                           *)
(***************************************************************************)
LaterOutputsKept ==
    /\ obj'[1]._processed_audio = obj[1]._processed_audio
    /\ obj'[1]._audio_chunks = obj[1]._audio_chunks
    /\ obj'[1]._mel_features = obj[1]._mel_features

\* C22: a successful load changes only the raw audio buffer and the original
\* sample rate: it leaves the stored processed audio, audio chunks and mel
\* features exactly as they were and writes no file.
C22_LoadFrame ==
    [][\A b \in CallBlobs :
          ((LoadFromBinary(1, b) \/ LoadFromFile(1, b)) /\ last'.err = NoError) =>
              /\ obj'[1]._raw_audio.val = sf_read(b).audio
              /\ obj'[1].original_sample_rate.val = sf_read(b).sample_rate
              /\ LaterOutputsKept
              /\ tts'.wav_file = tts.wav_file
              /\ tts'.wav_writes = tts.wav_writes]_vars

\* a second load succeeded on an instance that holds the processed audio,
\* the frames and the tiles of the first
C22_Witness ==
    /\ last.op \in {"load", "load_file"}
    /\ last.err = NoError
    /\ obj[1]._raw_audio.run = 2
    /\ obj[1]._processed_audio.some
    /\ obj[1]._audio_chunks.some
    /\ obj[1]._mel_features.some
    /\ obj[1]._mel_features.run = 1
    /\ obj[1]._mel_features.val # <<>>

(***************************************************************************)
(* The columns the analysis itself yields, checked under SpecFeat.         *)
(***************************************************************************)
\* the number of columns of the spectrogram of a frame of chunk_size
\* samples, before the time-axis correction
RawTimeSteps(c) ==
    melspectrogram(FixChunkLength(<<>>, chunk_size(c)), c.mel_bands,
                   hop_length(c)).S.cols

\* C23: with hop_length = chunk_size / 2 (160 for the default frame of 320
\* samples) the centred analysis of a frame yields 4 time steps, so the 4
\* columns of a tile are all analysis columns and none is an edge copy: for
\* the configuration in use and for the default one.
C23_FourAnalysisColumns ==
    (last.op = "featurize" /\ last.err = NoError) =>
        \A c \in {cfg, DefaultConfig} :
            hop_length(c) >= 1 => RawTimeSteps(c) = TimeSteps



(***************************************************************************)
(* The voice tables: a handler constructed over any folder of voice        *)
(* models, and lookups by name on it.                                      *)
(***************************************************************************)
InitVoices ==
    /\ cfg \in Configs
    /\ obj = [i \in Instances |-> NewAudioProcessor]
    /\ call = [t \in Threads |-> IdleCall(1)]
    /\ last = NoCall
    /\ nloads = 0
    /\ tts \in { TextToSpeechHandlerOn(folder) : folder \in Folders }
    /\ ollama = NewOllamaService
    /\ ui = NewChatInterface

NextVoices ==
    \E actor \in ActorNames, style \in StyleNames : GetVoiceIdFromNames(actor, style)

SpecVoices == InitVoices /\ [][NextVoices]_vars

\* model file i of the folder reports style n of actor a
Reports(file, a, n) ==
    \E i \in 1..Len(file.metas) :
        file.metas[i].actor_name = a /\ file.metas[i].style_name = n

\* the lowest id of a model of the folder that reports style n of actor a
FirstModelId(folder, a, n) ==
    CHOOSE id \in ModelIds :
        /\ \E i \in 1..Len(folder) : folder[i].id = id /\ Reports(folder[i], a, n)
        /\ \A i \in 1..Len(folder) : Reports(folder[i], a, n) => id <= folder[i].id

\* the id under which that model reports the style first
FirstStyleId(folder, a, n) ==
    LET metas == OpenModel(folder, FirstModelId(folder, a, n)).metas
        k == CHOOSE i \in 1..Len(metas) :
                /\ metas[i].actor_name = a /\ metas[i].style_name = n
                /\ \A j \in 1..(i - 1) :
                      ~(metas[j].actor_name = a /\ metas[j].style_name = n)
    IN  metas[k].style_id

\* C24: voice lookup keeps the first occurrence: the models are loaded in
\* ascending model-id order, and for every actor and style name the lookup
\* table holds the style_id and model_id recorded the first time the style
\* name appeared for the actor; a later model reporting the same actor and
\* style name does not overwrite the entry, although the synthesizer's
\* metadata holds the styles of all models loaded.
C24_FirstOccurrenceKept ==
    LET folder == tts.vvm_folder
        table == tts.style_lookup_info
    IN  /\ \A a \in ActorNames, n \in StyleNames :
              IF \E i \in 1..Len(folder) : Reports(folder[i], a, n)
              THEN /\ a \in DOMAIN table
                   /\ n \in DOMAIN table[a]
                   /\ table[a][n] = [model_id |-> FirstModelId(folder, a, n),
                                     style_id |-> FirstStyleId(folder, a, n)]
              ELSE a \in DOMAIN table => n \notin DOMAIN table[a]
        /\ DOMAIN table \subseteq ActorNames
        /\ \A i \in 1..Len(folder) : \A k \in 1..Len(folder[i].metas) :
              \E j \in 1..Len(tts.metas) : tts.metas[j] = folder[i].metas[k]

\* the folder lists model 1 before model 0, both report zundamon's normal
\* style, and the lookup returned the style id of model 0
C24_Witness ==
    /\ Len(tts.vvm_folder) = 2
    /\ tts.vvm_folder[1].id = 1
    /\ tts.vvm_folder[2].id = 0
    /\ Reports(tts.vvm_folder[1], "zundamon", "normal")
    /\ Reports(tts.vvm_folder[2], "zundamon", "normal")
    /\ tts.last.op = "get_voice_id"
    /\ tts.last.err = NoError
    /\ tts.last.actor = "zundamon"
    /\ tts.last.style = "normal"
    /\ tts.last.val = FirstStyleId(tts.vvm_folder, "zundamon", "normal")
    /\ tts.style_lookup_info["zundamon"]["normal"].model_id = 0


(***************************************************************************)
(* The stored outputs as a chain, checked under Spec.                      *)
(***************************************************************************)
PrefixChain ==
    /\ obj[1]._mel_features.some => obj[1]._audio_chunks.some
    /\ obj[1]._audio_chunks.some => obj[1]._processed_audio.some
    /\ obj[1]._processed_audio.some => obj[1]._raw_audio.some

NoReset ==
    /\ obj[1]._raw_audio.some => obj'[1]._raw_audio.some
    /\ obj[1]._processed_audio.some => obj'[1]._processed_audio.some
    /\ obj[1]._audio_chunks.some => obj'[1]._audio_chunks.some
    /\ obj[1]._mel_features.some => obj'[1]._mel_features.some

\* C25: in every reachable state of an AudioProcessor the stored stage
\* outputs form a prefix chain (mel features present implies audio chunks
\* present, chunks present implies processed audio present, processed audio
\* present implies raw audio present), and no operation resets a stored
\* output back to absent.
C25_PrefixChainNeverReset == []PrefixChain /\ [][NoReset]_vars

\* a load failed on an instance that holds all four outputs, and still does
C25_Witness ==
    /\ last.op \in {"load", "load_file"}
    /\ last.err # NoError
    /\ obj[1]._raw_audio.some
    /\ obj[1]._processed_audio.some
    /\ obj[1]._audio_chunks.some
    /\ obj[1]._mel_features.some


(***************************************************************************)
(* A failed featurization, checked under Spec.  In the model a frame fails *)
(* to featurize when hop_length is 0, so the first frame is the one that   *)
(* fails.                                                                  *)
(***************************************************************************)
\* C26: generate_mel_spectrograms is all-or-nothing: if featurizing a frame
\* fails, the stored mel features keep their previous value (absent or the
\* prior list); the stored list is replaced only after every frame has been
\* featurized, so it never holds tiles for only some of the frames it was
\* made from.
C26_AllOrNothing ==
    /\ [][(last'.op = "generate" /\ last'.err # NoError) =>
             obj'[1]._mel_features = obj[1]._mel_features]_vars
    /\ [][(last'.op = "generate" /\ last'.err = NoError /\ last' # last) =>
             Len(obj'[1]._mel_features.val) = Len(obj[1]._audio_chunks.val)]_vars

\* featurizing the frame of a second load failed, and the instance still
\* holds the tile list of the first
C26_Witness ==
    /\ last.op = "generate"
    /\ last.err = "ParameterError: hop_length must be a positive integer"
    /\ obj[1]._audio_chunks.val # <<>>
    /\ obj[1]._audio_chunks.run = 2
    /\ obj[1]._mel_features.some
    /\ obj[1]._mel_features.run = 1


(***************************************************************************)
(* The derived sizes, checked under SpecRun.                               *)
(***************************************************************************)
PositiveSizes ==
    /\ chunk_size(cfg) >= 1
    /\ hop_length(cfg) >= 1
    /\ Chunked => Len(FramesStored) = CeilDiv(Len(Audio), chunk_size(cfg))
    /\ call[1].err # "ParameterError: hop_length must be a positive integer"
    /\ call[1].err # "ValueError: range() arg 3 must not be zero"

\* C27 as stated: for every configuration the constructor accepts,
\* chunk_size and hop_length are both at least 1, so chunk_audio's loop
\* ends after ceil(n / chunk_size) iterations and the featurizer is given a
\* positive hop.
C27_PositiveSizes == PositiveSizes

\* C27 as amended: the same for every configuration with
\* target_sample_rate * chunk_duration_ms >= 2000, for which chunk_size is at
\* least 2.
C27_PositiveSizesFromTwoSamples ==
    cfg.target_sample_rate * cfg.chunk_duration_ms >= 2000 =>
        chunk_size(cfg) >= 2 /\ PositiveSizes

\* a run over several frames ended under a configuration of the amended kind
C27_Witness ==
    /\ cfg.target_sample_rate * cfg.chunk_duration_ms >= 2000
    /\ call[1].pc = "done"
    /\ Chunked
    /\ Len(FramesStored) >= 2
    /\ Len(Audio) % chunk_size(cfg) # 0


(***************************************************************************)
(* The tables behind the two dropdowns (ChatInterface.__init__), checked   *)
(* under SpecVoices.  A list of dictionary keys is the set of the keys.    *)
(***************************************************************************)
actor_name_list == tts.voice_style_info.actors
actor_style_dict == tts.voice_style_info.actor_styles
style_lookup_dict == tts.voice_style_info.style_lookup

\* self.actor_style_dict.get(actor_name, [])
fetch_available_style_names_given_actor_name(actor_name) ==
    IF actor_name \in DOMAIN actor_style_dict
    THEN actor_style_dict[actor_name] ELSE {}

\* the actor can be chosen in the first dropdown, and then the style in the
\* second
Offered(actor, style) ==
    /\ actor \in actor_name_list
    /\ style \in fetch_available_style_names_given_actor_name(actor)

\* C28: the voice tables offered to the UI agree with the lookup table: the
\* actors list equals the key set of actor_styles and of style_lookup, each
\* actor's style list equals the key set of its style_lookup entry, and so
\* get_voice_id_from_names returns a style id without error for every
\* (actor, style) pair the dropdowns can offer and raises ValueError for
\* every pair they cannot.
C28_TablesAgree ==
    /\ actor_name_list = DOMAIN actor_style_dict
    /\ actor_name_list = DOMAIN style_lookup_dict
    /\ style_lookup_dict = tts.style_lookup_info
    /\ \A actor \in actor_name_list :
          /\ actor_style_dict[actor] = DOMAIN style_lookup_dict[actor]
          /\ actor_style_dict[actor] # {}
    /\ tts.last.op = "get_voice_id" =>
          IF Offered(tts.last.actor, tts.last.style)
          THEN /\ tts.last.err = NoError
               /\ tts.last.val =
                     style_lookup_dict[tts.last.actor][tts.last.style].style_id
          ELSE tts.last.err \in {"ValueError: Voice actor not found",
                                 "ValueError: Style not found for actor"}

\* a style that one actor offers was looked up for another actor, who does
\* not, and the lookup raised
C28_Witness ==
    /\ tts.last.op = "get_voice_id"
    /\ tts.last.actor = "metan"
    /\ tts.last.style = "sweet"
    /\ Offered("zundamon", "sweet")
    /\ Offered("metan", "normal")
    /\ ~Offered("metan", "sweet")
    /\ tts.last.err = "ValueError: Style not found for actor"


(***************************************************************************)
(* Two /prompt requests served at once by the one handler.                 *)
(***************************************************************************)
NextOllama ==
    \E r \in Requests :
        \/ \E body \in RequestBodies : PromptOllama(r, body)
        \/ SetModel(r)
        \/ UpdateAdminPrompt(r)
        \/ UpdateUserPrompt(r)
        \/ Chat(r)
        \/ ParseModel(r)
        \/ ParseUserPrompt(r)
        \/ ParseAdminPrompt(r)

SpecOllama == Init /\ [][NextOllama]_vars

\* C29: concurrent /prompt requests served by the single module-level
\* OllamaPromptHandler do not mix: under every interleaving of two requests'
\* handle and parse_response steps the model is queried with each request's
\* own model and prompts, and each response body echoes (without line and
\* tab separators) the model, user prompt and admin prompt of the request it
\* answers.
C29_RequestsDoNotMix ==
    \A r \in Requests :
        LET q == ollama.req[r]
        IN  /\ q.queried.some =>
                  q.queried = chat(q.body.model, q.body.admin_prompt,
                                   q.body.user_prompt)
            /\ q.pc = "done" =>
                  /\ q.response.model = q.body.model
                  /\ q.response.user_prompt =
                         remove_seperators_from_text(q.body.user_prompt)
                  /\ q.response.admin_prompt =
                         remove_seperators_from_text(q.body.admin_prompt)


(***************************************************************************)
(* A sequence of submissions in the chat UI.                               *)
(***************************************************************************)
NextUi ==
    \E response \in LlmReplies, actor \in ActorNames, style \in StyleNames :
        CreateOutputToUi(response, actor, style)

SpecUi == Init /\ [][NextUi]_vars

\* C30: in the chat UI the audio file path that create_output_to_ui returns
\* always refers to speech synthesized in that same call from the text
\* response returned with it: across any sequence of submissions, including
\* ones where the LLM request fails or returns empty text, the returned path
\* never points at audio written for an earlier submission.
C30_AudioOfThisSubmission ==
    (ui.last.op = "create_output_to_ui" /\ ui.last.err = NoError) =>
        /\ ui.last.written
        /\ ui.last.audio.some
        /\ ui.last.llm_response.some
        /\ ui.last.audio.wav_of = ui.last.llm_response.text

\* a submission whose LLM request failed came back with the path of the
\* audio of an earlier reply
StaleAudioReturned ==
    /\ ui.last.op = "create_output_to_ui"
    /\ ui.last.err = NoError
    /\ ~ui.last.llm_response.some
    /\ ui.last.audio.some
    /\ ~ui.last.written

====
